---- MODULE Spec2Model ----
(***************************************************************************)
(* MCPFolderOrganizer: the classification chain, the folder planner and    *)
(* the collision-safe move executor, as a state machine.                   *)
(*                                                                         *)
(* Strings are TLA+ strings (Len, SubSeq and \o work on them).  A float    *)
(* confidence is an integer number of 1/ConfUnit units, so 1.0 is ConfUnit *)
(* and 0.8 is 24.  A JSON value (a field of an oracle response, and so a   *)
(* value the code may carry in a str-annotated attribute) is a record      *)
(* [t, s, n]: its type tag, its text when a string, its number when a      *)
(* number.                                                                 *)
(***************************************************************************)
EXTENDS Integers, Sequences, FiniteSets, TLC

\* ------------------------------------------------------------------ bounds

\* The largest number of regular files the analysed folder starts with.
MaxFiles == 2

\* The same for the folders analysed under the operator's prompt alone.
MaxRecords == 3

\* The most repetitions of the filler in a name given to sanitize_folder_name:
\* names of up to some 2 * MaxRepeat + 15 characters.
MaxRepeat == 101

\* The longest list of records given to _organize_by_category taken alone.
MaxPlanFiles == 6

\* The most tool calls made one after the other on a folder.
MaxCalls == 2

\* 1.0 as a confidence: confidences are counted in units of 1/30.
ConfUnit == 30

\* ------------------------------------------------------- Python str helpers

Min(a, b) == IF a < b THEN a ELSE b

Char(s, i) == SubSeq(s, i, i)

\* s[:n]
Prefix(s, n) == SubSeq(s, 1, Min(n, Len(s)))

\* sub in s
Contains(s, sub) ==
    \E i \in 1..(Len(s) - Len(sub) + 1) : SubSeq(s, i, i + Len(sub) - 1) = sub

\* s.find(c) and s.rfind(c) for a one-character c, 1-based; 0 when absent.
Find(s, c) ==
    LET at == {i \in 1..Len(s) : Char(s, i) = c}
    IN IF at = {} THEN 0 ELSE CHOOSE i \in at : \A j \in at : i <= j

RFind(s, c) ==
    LET at == {i \in 1..Len(s) : Char(s, i) = c}
    IN IF at = {} THEN 0 ELSE CHOOSE i \in at : \A j \in at : i >= j

\* The characters of the modelled names and texts, in code point order.
Ascii == " !\"'()*,./0123456789:<>?ABCDEFGHIJKLMNOPQRSTUVWXYZ[\\]_abcdefghijklmnopqrstuvwxyz{|}"

Ord(c) == Find(Ascii, c)

UpperChars == "ABCDEFGHIJKLMNOPQRSTUVWXYZ"

LowerChars == "abcdefghijklmnopqrstuvwxyz"

LowerChar(c) ==
    IF Find(UpperChars, c) > 0 THEN Char(LowerChars, Find(UpperChars, c)) ELSE c

\* s.lower()
RECURSIVE Lower(_)
Lower(s) ==
    IF Len(s) = 0 THEN "" ELSE LowerChar(Char(s, 1)) \o Lower(SubSeq(s, 2, Len(s)))

\* a < b, as Python compares str (by code point, a proper prefix first).
RECURSIVE StrLess(_, _)
StrLess(a, b) ==
    IF Len(b) = 0 THEN FALSE
    ELSE IF Len(a) = 0 THEN TRUE
    ELSE IF Char(a, 1) = Char(b, 1)
         THEN StrLess(SubSeq(a, 2, Len(a)), SubSeq(b, 2, Len(b)))
         ELSE Ord(Char(a, 1)) < Ord(Char(b, 1))

\* sorted(S) for a set of distinct strings.
RECURSIVE SortedNames(_)
SortedNames(S) ==
    IF S = {} THEN <<>>
    ELSE LET m == CHOOSE x \in S : \A y \in S \ {x} : StrLess(x, y)
         IN <<m>> \o SortedNames(S \ {m})

\* s.replace(c, '_') for every c of chars, a half of s at a time.
RECURSIVE ReplaceChars(_, _)
ReplaceChars(s, chars) ==
    IF Len(s) = 0 THEN ""
    ELSE IF Len(s) = 1 THEN (IF Find(chars, s) > 0 THEN "_" ELSE s)
    ELSE ReplaceChars(SubSeq(s, 1, Len(s) \div 2), chars)
         \o ReplaceChars(SubSeq(s, (Len(s) \div 2) + 1, Len(s)), chars)

\* s.strip(chars)
RECURSIVE LStrip(_, _)
LStrip(s, chars) ==
    IF Len(s) > 0 /\ Find(chars, Char(s, 1)) > 0
    THEN LStrip(SubSeq(s, 2, Len(s)), chars)
    ELSE s

RECURSIVE RStrip(_, _)
RStrip(s, chars) ==
    IF Len(s) > 0 /\ Find(chars, Char(s, Len(s))) > 0
    THEN RStrip(SubSeq(s, 1, Len(s) - 1), chars)
    ELSE s

Strip(s, chars) == RStrip(LStrip(s, chars), chars)

\* The decimal digits of a natural number: str(k).
RECURSIVE Str(_)
Str(k) ==
    IF k < 10 THEN Char("0123456789", k + 1)
    ELSE Str(k \div 10) \o Char("0123456789", (k % 10) + 1)

\* s * n
RECURSIVE Repeat(_, _)
Repeat(s, n) ==
    IF n = 0 THEN ""
    ELSE IF n = 1 THEN s
    ELSE Repeat(s, n \div 2) \o Repeat(s, n - (n \div 2))

\* ------------------------------------------------------------ pathlib.Path

\* The final component of a path.
PathName(p) == SubSeq(p, RFind(p, "/") + 1, Len(p))

\* Path(p).suffix: from the last dot of the name, unless that dot is the
\* name's first or last character.
PathSuffix(p) ==
    LET name == PathName(p)
        i == RFind(name, ".")
    IN IF i > 1 /\ i < Len(name) THEN SubSeq(name, i, Len(name)) ELSE ""

\* Path(p).stem
PathStem(p) ==
    LET name == PathName(p)
        i == RFind(name, ".")
    IN IF i > 1 /\ i < Len(name) THEN SubSeq(name, 1, i - 1) ELSE name

\* folder / name, relative to the analysed folder ("" is the folder itself).
Join(dir, name) == IF dir = "" THEN name ELSE dir \o "/" \o name

\* Path(p).parent
Parent(p) == SubSeq(p, 1, RFind(p, "/") - 1)

\* The path the operating system reaches when it is given p: pathlib keeps a
\* ".." component as it is, the system calls step out of the directory
\* before it.
RECURSIVE Resolve(_)
Resolve(p) ==
    LET at == {i \in 1..(Len(p) - 3) : SubSeq(p, i, i + 3) = "/../"}
    IN IF at = {} THEN p
       ELSE LET i == CHOOSE k \in at : \A j \in at : k <= j
            IN Resolve(Join(Parent(SubSeq(p, 1, i - 1)), SubSeq(p, i + 4, Len(p))))

\* ------------------------------------------------------------- JSON values

JNull == [t |-> "null", s |-> "", n |-> 0]

JStr(x) == [t |-> "str", s |-> x, n |-> 0]

JNum(k) == [t |-> "num", s |-> "", n |-> k]

\* The array ["Code"]: a value that is truthy, not a str and not hashable.
JList == [t |-> "list", s |-> "", n |-> 0]

\* bool(v)
Truthy(v) ==
    CASE v.t = "null" -> FALSE
      [] v.t = "str" -> v.s # ""
      [] v.t = "num" -> v.n # 0
      [] OTHER -> TRUE

\* a or b
PyOr(a, b) == IF Truthy(a) THEN a ELSE b

\* hash(v) succeeds
Hashable(v) == v.t # "list"

\* str(v), as an f-string renders it.
PyStr(v) ==
    CASE v.t = "str" -> v.s
      [] v.t = "num" -> Str(v.n)
      [] v.t = "null" -> "None"
      [] OTHER -> "['Code']"

\* ----------------------------------------------------------- configuration

\* is_text_file's extension set.
text_extensions ==
    {".txt", ".md", ".py", ".js", ".ts", ".json", ".yaml", ".yml", ".xml",
     ".html", ".css", ".sql", ".java", ".cpp", ".c", ".h", ".sh", ".bash",
     ".log", ".csv", ".ini", ".conf", ".config"}

\* is_text_file's size ceiling in bytes: max_size_mb * 1024 * 1024.
MaxTextBytes == 10485760

\* The bytes of text read for a preview, f.read(500).
PreviewRead == 500

\* The bytes of preview a record keeps, content_preview[:200].
PreviewKept == 200

\* The characters sanitize_folder_name replaces.
invalid_chars == "<>:\"/\\|?*"

\* sanitize_folder_name's length ceiling.
MaxFolderNameLength == 200

\* The category of a file no link classified.
Uncategorized == "Uncategorized"

\* The confidence the interactive link gives when none is typed: 0.8.
DefaultPromptConfidence == 24

\* sanitize_folder_name without its length limit.
sanitize_folder_name_unlimited(name) ==
    LET replaced == ReplaceChars(name, invalid_chars)
        stripped == Strip(replaced, ". ")
    IN IF stripped = "" THEN "folder" ELSE stripped

\* sanitize_folder_name(name)
sanitize_folder_name(name) ==
    LET replaced == ReplaceChars(name, invalid_chars)
        stripped == Strip(replaced, ". ")
        cut == IF Len(stripped) > MaxFolderNameLength
               THEN Prefix(stripped, MaxFolderNameLength)
               ELSE stripped
    IN IF cut = "" THEN "folder" ELSE cut

\* is_text_file(file_path): by extension and size.
is_text_file(name, size) ==
    /\ Lower(PathSuffix(name)) \in text_extensions
    /\ ~(size > MaxTextBytes)

\* ------------------------------------------------------ oracle responses

\* What a classification link returns: None (a miss) or the 4-tuple.
Miss ==
    [hit |-> FALSE, category |-> JNull, confidence |-> 0,
     subcategory |-> JNull, suggested_name |-> JNull]

Hit(c, f, sub, nm) ==
    [hit |-> TRUE, category |-> c, confidence |-> f,
     subcategory |-> sub, suggested_name |-> nm]

\* The JSON object of a response: the fields the code reads.
Fields(c, l, f, sub, nm) ==
    [category |-> c, label |-> l, confidence |-> f,
     subcategory |-> sub, suggested_name |-> nm]

\* The reading of the fields of a response object, shared by both oracles:
\* float() of a confidence that is neither absent nor a number raises, and
\* the enclosing except turns that into None.
ParseFields(data) ==
    LET category == PyOr(data.category, data.label)
    IN IF data.confidence.t \notin {"null", "num"} THEN Miss
       ELSE IF Truthy(category)
            THEN Hit(category,
                     IF data.confidence.t = "null" THEN 0 ELSE data.confidence.n,
                     data.subcategory, data.suggested_name)
            ELSE Miss

\* Oracle A's HTTP exchanges: status "ok" is a 2xx answer whose body is a
\* JSON object (its fields at top level or under "result"); any other status
\* is an exception inside the try block.
ResponsesA ==
    { [status |-> "timeout", data |-> Fields(JNull, JNull, JNull, JNull, JNull)],
      [status |-> "http500", data |-> Fields(JStr("Code"), JNull, JNum(27), JNull, JNull)],
      [status |-> "ok",
       data |-> Fields(JStr("Code"), JNull, JNum(27), JStr("Python"), JStr("main.py"))],
      [status |-> "ok", data |-> Fields(JNull, JStr("Documents"), JNull, JList, JNull)],
      [status |-> "ok", data |-> Fields(JStr("Code"), JNull, JStr("high"), JNull, JNull)],
      [status |-> "ok", data |-> Fields(JList, JNull, JNum(45), JNull, JNull)],
      [status |-> "ok", data |-> Fields(JNull, JNull, JNum(27), JNull, JStr("main.py"))],
      [status |-> "ok",
       data |-> Fields(JStr("Code"), JNull, JNum(27), JNull, JStr("../main.py"))] }

\* _external_llm_classify
ExternalLLMClassify(r) == IF r.status = "ok" THEN ParseFields(r.data) ELSE Miss

\* json.loads on the texts the modelled completions can yield; every other
\* text is not JSON.
JsonTexts ==
    { "{\"category\":\"Data\",\"confidence\":0.9,\"suggested_name\":\"main.py\"}",
      "{\"category\":\"Data\",\"confidence\":0.9}",
      "{\"label\":\"Code\",\"confidence\":\"high\"}" }

JsonLoads(text) ==
    CASE text = "{\"category\":\"Data\",\"confidence\":0.9,\"suggested_name\":\"main.py\"}" ->
             Fields(JStr("Data"), JNull, JNum(27), JNull, JStr("main.py"))
      [] text = "{\"category\":\"Data\",\"confidence\":0.9}" ->
             Fields(JStr("Data"), JNull, JNum(27), JNull, JNull)
      [] OTHER ->
             Fields(JNull, JStr("Code"), JStr("high"), JNull, JNull)

\* _extract_json_from_text: the text from the first "{" to the last "}",
\* when json.loads accepts it; "" stands for None.
ExtractJsonFromText(text) ==
    LET start == Find(text, "{")
        end == RFind(text, "}")
        candidate == SubSeq(text, start, end)
    IN IF start # 0 /\ end # 0 /\ end > start /\ candidate \in JsonTexts
       THEN candidate
       ELSE ""

\* Oracle B's HTTP exchanges: the content of the first choice, when any.
ResponsesB ==
    { [status |-> "timeout", choices |-> 0, content |-> ""],
      [status |-> "ok", choices |-> 0, content |-> ""],
      [status |-> "ok", choices |-> 1, content |-> "I cannot classify this"],
      [status |-> "ok", choices |-> 1,
       content |-> "{\"category\":\"Data\",\"confidence\":0.9,\"suggested_name\":\"main.py\"}"],
      [status |-> "ok", choices |-> 1,
       content |-> "Sure: {\"category\":\"Data\",\"confidence\":0.9}."],
      [status |-> "ok", choices |-> 1,
       content |-> "{\"label\":\"Code\",\"confidence\":\"high\"}"] }

\* _openai_classify
OpenAIClassify(r) ==
    IF r.status # "ok" \/ r.choices = 0 THEN Miss
    ELSE LET json_text == ExtractJsonFromText(r.content)
         IN IF json_text = "" THEN Miss ELSE ParseFields(JsonLoads(json_text))

\* float(s) for the lines an operator types: the numeric ones.
FloatLines == {"1.5", "0"}

FloatOf(s) == IF s = "1.5" THEN 45 ELSE 0

\* What the operator types at prompt_for_classification: eof stands for
\* input() raising (a closed stdin).
ResponsesI ==
    { [eof |-> TRUE, category |-> "", confidence |-> ""],
      [eof |-> FALSE, category |-> "  ", confidence |-> ""],
      [eof |-> FALSE, category |-> " Notes ", confidence |-> ""],
      [eof |-> FALSE, category |-> "Notes", confidence |-> "high"],
      [eof |-> FALSE, category |-> "Uncategorized", confidence |-> " 1.5"] }

\* prompt_for_classification: a raise (eof) is caught by the caller, which
\* falls through as for None.  The subcategory and name typed are discarded
\* by the only caller, so they are not drawn.
PromptForClassification(r) ==
    LET category == Strip(r.category, " ")
        conf_input == Strip(r.confidence, " ")
    IN IF r.eof \/ category = "" THEN Miss
       ELSE Hit(JStr(category),
                IF conf_input = "" THEN DefaultPromptConfidence
                ELSE IF conf_input \in FloatLines THEN FloatOf(conf_input)
                ELSE DefaultPromptConfidence,
                JNull, JNull)

\* What the operator types at prompt_for_subcategory.
ResponsesSub ==
    { [eof |-> TRUE, line |-> ""],
      [eof |-> FALSE, line |-> ""],
      [eof |-> FALSE, line |-> " Python "] }

\* prompt_for_subcategory: "" stands for None.
PromptForSubcategory(r) == IF r.eof THEN "" ELSE Strip(r.line, " ")

\* ------------------------------------------------------------------- state

VARIABLES
    env,             \* EXTERNAL_LLM_URL, OPENAI_API_KEY set; INTERACTIVE_MODE true
    files,           \* the regular files below the folder: path |-> content id
    dirs,            \* the directories below the folder: a set of paths
    pc,              \* where the running tool call stands
    call,            \* the last tool to get its analysis result, with its flags
    ncalls,          \* tool calls returned so far
    todo,            \* analyze_folder: the names still to analyse, sorted
    analyzed_files,  \* analyze_folder: the records collected so far
    organization,    \* _organize_by_category: the dict, in insertion order
    gidx,            \* _organize_by_category: the next record to group
    cur,             \* _analyze_file: the locals of the file being analysed
    slots,           \* what the links of the running fallback chain returned
    link,            \* the link the running fallback chain calls next
    result,          \* the OrganizationResult of the last analysis
    results,         \* organize_files: created_folders, moved_files, errors
    pidx,            \* organize_files: the plan being processed
    fidx,            \* organize_files: the next file of it to move (0: none yet)
    raised,          \* the exception the tool call ended with ("" when none)
    request,         \* the call's folder_path: what it names, how listing it goes
    arg,             \* a function taken alone: its name and its argument
    ret              \* what that function returned

vars ==
    <<env, files, dirs, pc, call, ncalls, todo, analyzed_files, organization,
      gidx, cur, slots, link, result, results, pidx, fidx, raised, request,
      arg, ret>>

\* The files a folder may hold: name and text content.
Universe ==
    { [name |-> "script.py", content |-> "print('hello')"],
      [name |-> "config.yaml", content |-> "setting: value"],
      [name |-> "report.txt", content |-> "This is a report document"],
      [name |-> "a.PNG", content |-> "image"],
      [name |-> "Uncategorized_a.PNG", content |-> "photo"] }

UniverseNames == {u.name : u \in Universe}

\* A file that a target folder held before the call.
OldId == "old"

ContentOf(id) ==
    IF id \in UniverseNames THEN (CHOOSE u \in Universe : u.name = id).content ELSE ""

\* What the folder's subfolders hold before the first call.
PreTrees ==
    { [dirs |-> {}, files |-> {}],
      [dirs |-> {"Uncategorized"}, files |-> {"Uncategorized/Uncategorized_a.PNG"}] }

\* A test that sees regular files only.
ExistsAsFile(p) == Resolve(p) \in DOMAIN files

\* Path.exists()
Exists(p) == Resolve(p) \in DOMAIN files \/ Resolve(p) \in dirs

\* The regular files that are immediate children of the folder.
RootFiles == {p \in DOMAIN files : Find(p, "/") = 0}

EmptyResult ==
    [total_files |-> 0, organized_folders |-> <<>>, unorganized_files |-> <<>>,
     suggested_structure |-> <<>>]

EmptyResults == [created_folders |-> <<>>, moved_files |-> <<>>, errors |-> <<>>]

NoCur ==
    [name |-> "", content_preview |-> "", category |-> JNull, confidence |-> 0,
     calls |-> <<>>]

\* No tool was called yet.
NoRequest == [path |-> "", listing |-> ""]

\* No function is taken alone: f names none.
NoArg == [f |-> "", text |-> "", keys |-> <<>>]

NoRet == [done |-> FALSE, text |-> "", link |-> Miss, plans |-> <<>>, structure |-> <<>>]

\* No link has answered: every slot reads as a miss.
EmptySlots == [A |-> Miss, B |-> Miss, I |-> Miss, S |-> ""]

\* Every setting of the three environment variables.
Envs == [url : BOOLEAN, openai : BOOLEAN, interactive : BOOLEAN]

NoOracle == [url |-> FALSE, openai |-> FALSE, interactive |-> FALSE]

\* The server before its first tool call: a configuration of envs, a folder
\* of at most max files named in names, subfolders as one of pres.
Started(envs, names, pres, max) ==
    /\ env \in envs
    /\ \E S \in SUBSET names, pre \in pres :
          /\ Cardinality(S) <= max
          /\ files = [p \in S \cup pre.files |-> IF p \in S THEN p ELSE OldId]
          /\ dirs = pre.dirs
    /\ pc = "idle"
    /\ call = [tool |-> "", create_folders |-> FALSE, move_files |-> FALSE]
    /\ ncalls = 0
    /\ todo = <<>>
    /\ analyzed_files = <<>>
    /\ organization = <<>>
    /\ gidx = 0
    /\ cur = NoCur
    /\ slots = EmptySlots
    /\ link = ""
    /\ result = EmptyResult
    /\ results = EmptyResults
    /\ pidx = 0
    /\ fidx = 0
    /\ raised = ""
    /\ request = NoRequest
    /\ ret = NoRet

\* The state before the tool call, no function being taken alone.
InitWith(envs, names, pres, max) ==
    /\ Started(envs, names, pres, max)
    /\ arg = NoArg

\* ------------------------------------------------------ the fallback chain

\* _ai_suggest_category with another default: a category of its own at the
\* prompt's confidence.
AiSuggestCategoryOther(e, a, b, i) ==
    IF e.url /\ a.hit
    THEN [category |-> a.category, confidence |-> a.confidence]
    ELSE IF e.openai /\ b.hit
    THEN [category |-> b.category, confidence |-> b.confidence]
    ELSE IF e.interactive /\ i.hit
    THEN [category |-> i.category, confidence |-> i.confidence]
    ELSE [category |-> JStr("Other"), confidence |-> DefaultPromptConfidence]

\* _ai_suggest_category on what its links returned (a, b, i: a link not
\* called reads as a miss): oracle A when EXTERNAL_LLM_URL is set, then
\* oracle B when OPENAI_API_KEY is set, then the prompt when INTERACTIVE_MODE
\* is true, then ("Uncategorized", 0.0).
AiSuggestCategory(e, a, b, i) ==
    IF e.url /\ a.hit
    THEN [category |-> a.category, confidence |-> a.confidence]
    ELSE IF e.openai /\ b.hit
    THEN [category |-> b.category, confidence |-> b.confidence]
    ELSE IF e.interactive /\ i.hit
    THEN [category |-> i.category, confidence |-> i.confidence]
    ELSE [category |-> JStr(Uncategorized), confidence |-> 0]

\* _suggest_category
SuggestCategory(e, a, b, i) == AiSuggestCategory(e, a, b, i)

\* _suggest_filename: an oracle's suggested_name when it gives one (the
\* modelled responses give a str or none), else the original name when its
\* stem is longer than 5 and holds "_", else the category as a prefix.
SuggestFilename(e, original_name, category, a, b) ==
    LET name_without_ext == PathStem(original_name)
        ext == PathSuffix(original_name)
    IN IF e.url /\ a.hit /\ Truthy(a.suggested_name) THEN a.suggested_name.s
       ELSE IF e.openai /\ b.hit /\ Truthy(b.suggested_name) THEN b.suggested_name.s
       ELSE IF Len(name_without_ext) > 5 /\ Contains(name_without_ext, "_")
       THEN original_name
       ELSE PyStr(category) \o "_" \o name_without_ext \o ext

\* _detect_subcategory: the subcategory of oracle A's answer, else of oracle
\* B's, else the one typed at the prompt, else None (JNull); a, b, typed are
\* what the links returned.
DetectSubcategory(e, a, b, typed) ==
    IF e.url /\ a.hit /\ Truthy(a.subcategory) THEN a.subcategory
    ELSE IF e.openai /\ b.hit /\ Truthy(b.subcategory) THEN b.subcategory
    ELSE IF e.interactive /\ typed # "" THEN JStr(typed)
    ELSE JNull

\* The links a chain may call, in the order of the code: the category and
\* the subcategory chains end with the prompt, the file name chain does not.
ChainLinks(purpose) == IF purpose = "name" THEN <<"A", "B">> ELSE <<"A", "B", "I">>

\* The guard under which each link is called.
Configured(e, l) ==
    CASE l = "A" -> e.url
      [] l = "B" -> e.openai
      [] OTHER -> e.interactive

\* The first configured link after position k of the chain; "" when none.
LinkAfter(e, purpose, k) ==
    LET links == ChainLinks(purpose)
        later == {i \in (k + 1)..Len(links) : Configured(e, links[i])}
    IN IF later = {} THEN ""
       ELSE links[CHOOSE i \in later : \A j \in later : i <= j]

LinkIndex(l) == CASE l = "A" -> 1 [] l = "B" -> 2 [] OTHER -> 3

\* A chain without early returns: every configured link is called.
SatisfiesNever(purpose, r) == FALSE

\* The link's answer ends the chain: the early return of each caller.
Satisfies(purpose, r) ==
    CASE purpose = "classify" -> r.hit
      [] purpose = "name" -> r.hit /\ Truthy(r.suggested_name)
      [] OTHER -> r.hit /\ Truthy(r.subcategory)

\* The FileMetadata _analyze_file builds.  Size and tags are left out:
\* nothing downstream reads them.
FileMetadata(name, preview, category, confidence, suggested_name) ==
    [original_name |-> name,
     suggested_name |-> suggested_name,
     file_path |-> name,
     file_type |-> Lower(PathSuffix(name)),
     suggested_category |-> category,
     confidence_score |-> confidence,
     content_preview |-> Prefix(preview, PreviewKept)]

\* ------------------------------------------------------- the folder planner

\* An unstable sort: a plan goes before the plans of its own size.
InsertPlanFront(sorted, p) ==
    LET k == Cardinality({i \in 1..Len(sorted) :
                             Len(sorted[i].files) > Len(p.files)})
    IN SubSeq(sorted, 1, k) \o <<p>> \o SubSeq(sorted, k + 1, Len(sorted))

\* sorted(organization.values(), key=len(files), reverse=True): stable, so
\* plans of equal size keep their insertion order.
InsertPlan(sorted, p) ==
    LET k == Cardinality({i \in 1..Len(sorted) :
                             Len(sorted[i].files) >= Len(p.files)})
    IN SubSeq(sorted, 1, k) \o <<p>> \o SubSeq(sorted, k + 1, Len(sorted))

RECURSIVE SortedPlans(_)
SortedPlans(plans) ==
    IF plans = <<>> THEN <<>>
    ELSE InsertPlan(SortedPlans(SubSeq(plans, 1, Len(plans) - 1)), plans[Len(plans)])

\* _build_structure: a dict keyed by folder name, so a later plan of the
\* same folder name overwrites the earlier entry in place.
StructureEntry(plan) ==
    [folder |-> plan.suggested_folder_name,
     category |-> plan.category,
     file_count |-> Len(plan.files),
     files |-> [i \in 1..Min(5, Len(plan.files)) |-> plan.files[i].suggested_name]]

RECURSIVE BuildStructure(_)
BuildStructure(plans) ==
    IF plans = <<>> THEN <<>>
    ELSE LET prev == BuildStructure(SubSeq(plans, 1, Len(plans) - 1))
             entry == StructureEntry(plans[Len(plans)])
         IN IF \E i \in 1..Len(prev) : prev[i].folder = entry.folder
            THEN [i \in 1..Len(prev) |->
                     IF prev[i].folder = entry.folder THEN entry ELSE prev[i]]
            ELSE Append(prev, entry)

\* The OrganizationResult analyze_folder returns for the records analysed.
MakeResult(analyzed, plans) ==
    [total_files |-> Len(analyzed),
     organized_folders |-> plans,
     unorganized_files |->
         SelectSeq(analyzed, LAMBDA f : f.suggested_category = JStr(Uncategorized)),
     suggested_structure |-> BuildStructure(plans)]

\* The grouping key (top_category, subcategory or "").
GroupKey(category, subcategory) ==
    <<category, IF Truthy(subcategory) THEN subcategory ELSE JStr("")>>

\* The loop body of _organize_by_category raises: the key is not hashable
\* (TypeError), or sanitize_folder_name gets a category that is no str
\* (AttributeError).
GroupingRaises(category, subcategory) ==
    \/ ~Hashable(category)
    \/ ~Hashable(subcategory)
    \/ (~Truthy(subcategory) /\ category.t # "str")

\* A loop body that assigns a known key's file list instead of appending.
GroupIntoOverwrite(org, file_metadata, subcategory) ==
    LET top_category == file_metadata.suggested_category
        key == GroupKey(top_category, subcategory)
        folder_name == IF Truthy(subcategory)
                       THEN PyStr(top_category) \o "/" \o PyStr(subcategory)
                       ELSE PyStr(top_category)
    IN IF \E i \in 1..Len(org) : org[i].key = key
       THEN [i \in 1..Len(org) |->
                IF org[i].key = key
                THEN [org[i] EXCEPT !.files = <<file_metadata>>]
                ELSE org[i]]
       ELSE Append(org, [key |-> key,
                         category |-> top_category,
                         suggested_folder_name |-> sanitize_folder_name(folder_name),
                         files |-> <<file_metadata>>])

\* The loop body of _organize_by_category for one record.  A plan carries
\* its dict key beside the FolderOrganization's three attributes.
GroupInto(org, file_metadata, subcategory) ==
    LET top_category == file_metadata.suggested_category
        key == GroupKey(top_category, subcategory)
        folder_name == IF Truthy(subcategory)
                       THEN PyStr(top_category) \o "/" \o PyStr(subcategory)
                       ELSE PyStr(top_category)
    IN IF \E i \in 1..Len(org) : org[i].key = key
       THEN [i \in 1..Len(org) |->
                IF org[i].key = key
                THEN [org[i] EXCEPT !.files = Append(@, file_metadata)]
                ELSE org[i]]
       ELSE Append(org, [key |-> key,
                         category |-> top_category,
                         suggested_folder_name |-> sanitize_folder_name(folder_name),
                         files |-> <<file_metadata>>])

\* ------------------------------------------------------ the move executor

\* _move_file without its loop: the counter is appended once, whatever exists.
FreeNameFirst(dest_folder, stem, suffix, counter) ==
    stem \o "_" \o Str(counter) \o suffix

\* _move_file's loop: the first stem_counter.suffix that does not exist.
RECURSIVE FreeName(_, _, _, _)
FreeName(dest_folder, stem, suffix, counter) ==
    LET new_name == stem \o "_" \o Str(counter) \o suffix
    IN IF Exists(Join(dest_folder, new_name))
       THEN FreeName(dest_folder, stem, suffix, counter + 1)
       ELSE new_name

\* A destination taken without a look at what is there.
MoveDestOverwrites(dest_folder, new_name) == Join(dest_folder, new_name)

\* _move_file: the path shutil.move is given as destination.
MoveDest(dest_folder, new_name) ==
    IF Exists(Join(dest_folder, new_name))
    THEN Join(dest_folder, FreeName(dest_folder, PathStem(new_name), PathSuffix(new_name), 1))
    ELSE Join(dest_folder, new_name)

\* The tree after shutil.move(source, dest) succeeded.
Moved(source, dest) ==
    [p \in (DOMAIN files \ {source}) \cup {Resolve(dest)} |->
        IF p = Resolve(dest) THEN files[source] ELSE files[p]]

\* ----------------------------------------------------------------- actions

\* The tool call returns or raises: control goes back to the host.
EndCall(exc) ==
    /\ pc' = "idle"
    /\ ncalls' = ncalls + 1
    /\ raised' = exc
    /\ pidx' = 0
    /\ fidx' = 0

\* The call goes on inside analyze_folder.
Stay(p) ==
    /\ pc' = p
    /\ UNCHANGED <<ncalls, result, results, pidx, fidx, raised>>

\* analyze_folder returns its OrganizationResult to the tool that called it.
FinishAnalysis(analyzed, plans) ==
    /\ result' = MakeResult(analyzed, plans)
    /\ results' = EmptyResults
    /\ pc' = "analyzed"
    /\ raised' = ""
    /\ UNCHANGED <<ncalls, pidx, fidx>>

\* validate_path called inside analyze_folder's try block: whatever it
\* raises leaves as AnalysisError.
FailAnalysisWrapped(exc) ==
    /\ result' = EmptyResult
    /\ results' = EmptyResults
    /\ EndCall("AnalysisError")

\* analyze_folder raises: no result.
FailAnalysis(exc) ==
    /\ result' = EmptyResult
    /\ results' = EmptyResults
    /\ EndCall(exc)

\* No chain is running.
ClearChain ==
    /\ cur' = NoCur
    /\ slots' = EmptySlots
    /\ link' = ""

\* A tool of main.py is called (once in a behaviour), and calls
\* analyze_folder, as each of the three does first: validate_path,
\* _get_all_files and the empty folder's early return.  listing = "oserror" is iterdir raising OSError:
\* _get_all_files raises FileAccessError inside analyze_folder's try block,
\* whose except Exception re-raises it as AnalysisError.
AnalyzeFolderCall ==
    /\ pc = "idle"
    /\ \E path \in {"dir", "missing", "not_a_dir"}, listing \in {"ok", "oserror"} :
          /\ path # "dir" => listing = "ok"
          /\ request' = [path |-> path, listing |-> listing]
          /\ analyzed_files' = <<>>
          /\ organization' = <<>>
          /\ gidx' = 0
          /\ ClearChain
          /\ IF path # "dir"
             THEN todo' = <<>> /\ FailAnalysis("InvalidPathError")
             ELSE IF listing = "oserror"
             THEN todo' = <<>> /\ FailAnalysis("AnalysisError")
             ELSE IF RootFiles = {}
             THEN todo' = <<>> /\ FinishAnalysis(<<>>, <<>>)
             ELSE todo' = SortedNames(RootFiles) /\ Stay("analyze")
    /\ UNCHANGED <<env, arg, ret, files, dirs, call>>

\* The first tool call on the folder starts: each of the three tools begins
\* with analysis_service.analyze_folder(folder_path).
AnalyzeFolder ==
    /\ ncalls = 0
    /\ AnalyzeFolderCall

\* A further tool call starts on the folder as organize_files, called with
\* both flags and returning no error, left it.
AnalyzeFolderAgain ==
    /\ ncalls \in 1..(MaxCalls - 1)
    /\ call.tool = "organize_files"
    /\ call.create_folders
    /\ call.move_files
    /\ raised = ""
    /\ results.errors = <<>>
    /\ AnalyzeFolderCall

\* analyze_folder's loop goes past a file, analysed or skipped: to the next
\* name, to the grouping, or (no record at all) to the return.
AfterFile(analyzed) ==
    /\ analyzed_files' = analyzed
    /\ todo' = Tail(todo)
    /\ ClearChain
    /\ organization' = organization
    /\ IF Tail(todo) # <<>> THEN gidx' = gidx /\ Stay("analyze")
       ELSE IF analyzed # <<>> THEN gidx' = 1 /\ Stay("group")
       ELSE gidx' = gidx /\ FinishAnalysis(<<>>, <<>>)

\* What stat and open do for one file.
IOOutcomes == {"ok", "stat_fails"}

\* _analyze_file starts on the next name: stat (its raising is the
\* AnalysisError analyze_folder skips), the preview (empty when open
\* raises), and _suggest_category up to its first exchange, or to its
\* default when no link is configured.
BeginFile ==
    /\ pc = "analyze"
    /\ \E io \in IOOutcomes :
          IF io = "stat_fails" THEN AfterFile(analyzed_files)
          ELSE LET name == Head(todo)
                   content == ContentOf(files[name])
                   preview == IF is_text_file(name, Len(content)) /\ io = "ok"
                              THEN Prefix(content, PreviewRead)
                              ELSE ""
                   first == LinkAfter(env, "classify", 0)
                   cls == SuggestCategory(env, Miss, Miss, Miss)
               IN /\ cur' = [name |-> name,
                             content_preview |-> preview,
                             category |-> IF first = "" THEN cls.category ELSE JNull,
                             confidence |-> IF first = "" THEN cls.confidence ELSE 0,
                             calls |-> <<>>]
                  /\ slots' = EmptySlots
                  /\ link' = first
                  /\ Stay(IF first = "" THEN "classified" ELSE "classify")
                  /\ UNCHANGED <<todo, analyzed_files, organization, gidx>>
    /\ UNCHANGED <<env, request, arg, ret, files, dirs, call>>

\* One exchange of _ai_suggest_category: link l returned r (sl: the slots
\* with it).  A hit returns; a miss goes to the next configured
\* link, and past the last one to the default.
ClassifyStep(l, sl, r) ==
    LET next == LinkAfter(env, "classify", LinkIndex(l))
        done == Satisfies("classify", r) \/ next = ""
        cls == SuggestCategory(env, sl.A, sl.B, sl.I)
    IN /\ slots' = sl
       /\ link' = IF done THEN "" ELSE next
       /\ cur' = [cur EXCEPT
                     !.calls = Append(@, [link |-> l, hit |-> r.hit,
                                          category |-> r.category]),
                     !.category = IF done THEN cls.category ELSE @,
                     !.confidence = IF done THEN cls.confidence ELSE @]
       /\ Stay(IF done THEN "classified" ELSE "classify")
       /\ UNCHANGED <<todo, analyzed_files, organization, gidx>>

ClassifyA ==
    /\ pc = "classify"
    /\ link = "A"
    /\ \E r \in ResponsesA :
          ClassifyStep("A", [slots EXCEPT !.A = ExternalLLMClassify(r)], ExternalLLMClassify(r))
    /\ UNCHANGED <<env, request, arg, ret, files, dirs, call>>

ClassifyB ==
    /\ pc = "classify"
    /\ link = "B"
    /\ \E r \in ResponsesB :
          ClassifyStep("B", [slots EXCEPT !.B = OpenAIClassify(r)], OpenAIClassify(r))
    /\ UNCHANGED <<env, request, arg, ret, files, dirs, call>>

ClassifyI ==
    /\ pc = "classify"
    /\ link = "I"
    /\ \E r \in ResponsesI :
          ClassifyStep("I", [slots EXCEPT !.I = PromptForClassification(r)],
                       PromptForClassification(r))
    /\ UNCHANGED <<env, request, arg, ret, files, dirs, call>>

\* _analyze_file returns the record, named from the responses sl of the
\* file name chain.
CompleteFile(sl) ==
    AfterFile(Append(analyzed_files,
                     FileMetadata(cur.name, cur.content_preview, cur.category,
                                  cur.confidence,
                                  SuggestFilename(env, cur.name, cur.category,
                                                  sl.A, sl.B))))

\* _suggest_filename starts: up to its first exchange, or to the heuristic
\* name when no oracle is configured.
NameFile ==
    /\ pc = "classified"
    /\ LET first == LinkAfter(env, "name", 0)
       IN IF first = "" THEN CompleteFile(EmptySlots)
          ELSE /\ slots' = EmptySlots
               /\ link' = first
               /\ Stay("name")
               /\ UNCHANGED <<cur, todo, analyzed_files, organization, gidx>>
    /\ UNCHANGED <<env, request, arg, ret, files, dirs, call>>

\* One exchange of _suggest_filename.
NameStep(l, sl, r) ==
    LET next == LinkAfter(env, "name", LinkIndex(l))
    IN IF Satisfies("name", r) \/ next = "" THEN CompleteFile(sl)
       ELSE /\ slots' = sl
            /\ link' = next
            /\ Stay("name")
            /\ UNCHANGED <<cur, todo, analyzed_files, organization, gidx>>

NameA ==
    /\ pc = "name"
    /\ link = "A"
    /\ \E r \in ResponsesA :
          NameStep("A", [slots EXCEPT !.A = ExternalLLMClassify(r)], ExternalLLMClassify(r))
    /\ UNCHANGED <<env, request, arg, ret, files, dirs, call>>

NameB ==
    /\ pc = "name"
    /\ link = "B"
    /\ \E r \in ResponsesB :
          NameStep("B", [slots EXCEPT !.B = OpenAIClassify(r)], OpenAIClassify(r))
    /\ UNCHANGED <<env, request, arg, ret, files, dirs, call>>

\* The loop body of _organize_by_category for record gidx, its subcategory
\* detected; after the last record the plans are sorted and analyze_folder
\* returns.  An exception of the body leaves analyze_folder as AnalysisError.
GroupBody(subcategory) ==
    LET file_metadata == analyzed_files[gidx]
    IN /\ ClearChain
       /\ UNCHANGED <<todo, analyzed_files>>
       /\ IF GroupingRaises(file_metadata.suggested_category, subcategory)
          THEN /\ organization' = organization
               /\ gidx' = gidx
               /\ FailAnalysis("AnalysisError")
          ELSE LET org == GroupInto(organization, file_metadata, subcategory)
               IN /\ organization' = org
                  /\ IF gidx < Len(analyzed_files)
                     THEN gidx' = gidx + 1 /\ Stay("group")
                     ELSE gidx' = gidx
                          /\ FinishAnalysis(analyzed_files, SortedPlans(org))

\* _detect_subcategory starts for the next record: up to its first exchange,
\* or to None when no link is configured.
GroupFile ==
    /\ pc = "group"
    /\ LET first == LinkAfter(env, "subcategory", 0)
       IN IF first = "" THEN GroupBody(JNull)
          ELSE /\ slots' = EmptySlots
               /\ link' = first
               /\ Stay("subcategory")
               /\ UNCHANGED <<cur, todo, analyzed_files, organization, gidx>>
    /\ UNCHANGED <<env, request, arg, ret, files, dirs, call>>

\* One exchange of _detect_subcategory.
SubcategoryStep(l, sl, satisfied) ==
    LET next == LinkAfter(env, "subcategory", LinkIndex(l))
    IN IF satisfied \/ next = ""
       THEN GroupBody(DetectSubcategory(env, sl.A, sl.B, sl.S))
       ELSE /\ slots' = sl
            /\ link' = next
            /\ Stay("subcategory")
            /\ UNCHANGED <<cur, todo, analyzed_files, organization, gidx>>

SubcategoryA ==
    /\ pc = "subcategory"
    /\ link = "A"
    /\ \E r \in ResponsesA :
          SubcategoryStep("A", [slots EXCEPT !.A = ExternalLLMClassify(r)],
                          Satisfies("subcategory", ExternalLLMClassify(r)))
    /\ UNCHANGED <<env, request, arg, ret, files, dirs, call>>

SubcategoryB ==
    /\ pc = "subcategory"
    /\ link = "B"
    /\ \E r \in ResponsesB :
          SubcategoryStep("B", [slots EXCEPT !.B = OpenAIClassify(r)],
                          Satisfies("subcategory", OpenAIClassify(r)))
    /\ UNCHANGED <<env, request, arg, ret, files, dirs, call>>

SubcategoryI ==
    /\ pc = "subcategory"
    /\ link = "I"
    /\ \E r \in ResponsesSub :
          SubcategoryStep("I", [slots EXCEPT !.S = PromptForSubcategory(r)],
                          PromptForSubcategory(r) # "")
    /\ UNCHANGED <<env, request, arg, ret, files, dirs, call>>

\* The analyze_folder and get_structure tools answer with the result.
Respond ==
    /\ pc = "analyzed"
    /\ \E tool \in {"analyze_folder", "get_structure"} :
          call' = [tool |-> tool, create_folders |-> FALSE, move_files |-> FALSE]
    /\ EndCall("")
    /\ UNCHANGED <<env, request, arg, ret, files, dirs, todo, analyzed_files, organization, gidx,
                   cur, slots, link, result, results>>

\* The organize_files tool passes the result on to
\* FileOrganizationService.organize_files with the flags it was called with.
OrganizeFiles ==
    /\ pc = "analyzed"
    /\ \E cf \in BOOLEAN, mv \in BOOLEAN :
          call' = [tool |-> "organize_files", create_folders |-> cf, move_files |-> mv]
    /\ IF result.organized_folders = <<>>
       THEN EndCall("")
       ELSE /\ pc' = "organize"
            /\ pidx' = 1
            /\ fidx' = 0
            /\ UNCHANGED <<ncalls, raised>>
    /\ UNCHANGED <<env, request, arg, ret, files, dirs, todo, analyzed_files, organization, gidx,
                   cur, slots, link, result, results>>

\* A loop over the plans that is left after its first plan.
NextPlanAborts == EndCall("")

\* organize_files goes to the next plan, or returns after the last.
NextPlan ==
    IF pidx < Len(result.organized_folders)
    THEN /\ pc' = "organize"
         /\ pidx' = pidx + 1
         /\ fidx' = 0
         /\ UNCHANGED <<ncalls, raised>>
    ELSE EndCall("")

\* What mkdir(exist_ok=True) does when the path is free.
MkdirOutcomes == {"created", "oserror"}

\* A guard that looks at move_files alone.
MovesFilesAlone(c) == c.move_files

\* The guard of the loop over a plan's files: files move only when both
\* flags are set.
MovesFiles(c) == c.move_files /\ c.create_folders

\* The head of organize_files' loop body for one plan: the folder is created
\* when create_folders (an existing directory is success, an existing file
\* or an OSError the per-folder error that skips the plan); the files are
\* moved next when both flags hold.
CreateFolder ==
    /\ pc = "organize"
    /\ fidx = 0
    /\ LET folder_org == result.organized_folders[pidx]
           folder_name == folder_org.suggested_folder_name
           folder_path == Join("", folder_name)
       IN \E mk \in IF call.create_folders /\ ~Exists(folder_path)
                    THEN MkdirOutcomes ELSE {"created"} :
             IF call.create_folders /\ (folder_path \in DOMAIN files \/ mk = "oserror")
             THEN /\ results' = [results EXCEPT !.errors =
                                    Append(@, "Failed to create " \o folder_name)]
                  /\ NextPlan
                  /\ UNCHANGED dirs
             ELSE /\ IF call.create_folders
                     THEN /\ dirs' = dirs \cup {folder_path}
                          /\ results' = [results EXCEPT !.created_folders =
                                            Append(@, folder_path)]
                     ELSE UNCHANGED <<dirs, results>>
                  /\ IF MovesFiles(call)
                     THEN /\ fidx' = 1
                          /\ UNCHANGED <<pc, pidx, ncalls, raised>>
                     ELSE NextPlan
    /\ UNCHANGED <<env, request, arg, ret, files, call, todo, analyzed_files, organization, gidx,
                   cur, slots, link, result>>

\* What shutil.move does.
MoveOutcomes == {"moved", "oserror"}

\* One iteration of the loop over a plan's files: _move_file, then the entry
\* of moved_files (to: the folder joined with the suggested name), or the
\* error of a move that raised (shutil.move raises by itself when the source
\* is gone or the destination folder does not exist).
MoveFile ==
    /\ pc = "organize"
    /\ fidx > 0
    /\ LET folder_org == result.organized_folders[pidx]
           folder_path == Join("", folder_org.suggested_folder_name)
           file_metadata == folder_org.files[fidx]
           source == file_metadata.file_path
           dest_path == MoveDest(folder_path, file_metadata.suggested_name)
       IN \E mv \in MoveOutcomes :
             /\ IF /\ mv = "moved"
                   /\ source \in DOMAIN files
                   /\ folder_path \in dirs
                   /\ Parent(Resolve(dest_path)) \in dirs \cup {""}
                THEN /\ files' = Moved(source, dest_path)
                     /\ results' = [results EXCEPT !.moved_files =
                            Append(@, [from |-> source,
                                       to |-> Join(folder_path,
                                                   file_metadata.suggested_name)])]
                ELSE /\ files' = files
                     /\ results' = [results EXCEPT !.errors =
                            Append(@, "Failed to move " \o file_metadata.original_name)]
             /\ IF fidx < Len(folder_org.files)
                THEN /\ fidx' = fidx + 1
                     /\ UNCHANGED <<pc, pidx, ncalls, raised>>
                ELSE NextPlan
    /\ UNCHANGED <<env, request, arg, ret, dirs, call, todo, analyzed_files, organization, gidx,
                   cur, slots, link, result>>

Next ==
    \/ AnalyzeFolder
    \/ BeginFile
    \/ ClassifyA
    \/ ClassifyB
    \/ ClassifyI
    \/ NameFile
    \/ NameA
    \/ NameB
    \/ GroupFile
    \/ SubcategoryA
    \/ SubcategoryB
    \/ SubcategoryI
    \/ Respond
    \/ OrganizeFiles
    \/ CreateFolder
    \/ MoveFile

\* The three tools under every configuration.
Init == InitWith(Envs, UniverseNames, PreTrees, MaxFiles)

Spec == Init /\ [][Next]_vars

\* The analysis tools alone (analyze_folder, get_structure), under every
\* configuration, on a folder without subfolders.
InitAnalysis ==
    InitWith(Envs, {"script.py", "config.yaml", "report.txt"},
             {[dirs |-> {}, files |-> {}]}, MaxFiles)

NextAnalysis ==
    \/ AnalyzeFolder
    \/ BeginFile
    \/ ClassifyA
    \/ ClassifyB
    \/ ClassifyI
    \/ NameFile
    \/ NameA
    \/ NameB
    \/ GroupFile
    \/ SubcategoryA
    \/ SubcategoryB
    \/ SubcategoryI
    \/ Respond

SpecAnalysis == InitAnalysis /\ [][NextAnalysis]_vars

\* The three tools with no oracle or with oracle A alone: the steps of
\* oracle B and of the prompt are never enabled then.
InitOrganize ==
    InitWith({e \in Envs : ~e.openai /\ ~e.interactive}, UniverseNames, PreTrees,
             MaxFiles)

NextOrganize ==
    \/ AnalyzeFolder
    \/ BeginFile
    \/ ClassifyA
    \/ NameFile
    \/ NameA
    \/ GroupFile
    \/ SubcategoryA
    \/ Respond
    \/ OrganizeFiles
    \/ CreateFolder
    \/ MoveFile

SpecOrganize == InitOrganize /\ [][NextOrganize]_vars

\* Tool calls made one after the other on one folder of up to two files, with
\* no oracle or with oracle A alone.
InitRerun ==
    InitWith({e \in Envs : ~e.openai /\ ~e.interactive}, {"script.py", "a.PNG"},
             PreTrees, MaxFiles)

NextRerun ==
    \/ NextOrganize
    \/ AnalyzeFolderAgain

SpecRerun == InitRerun /\ [][NextRerun]_vars

\* The analysis tools with the operator's prompt as the only link, on larger
\* folders.
InitOperator ==
    InitWith({e \in Envs : ~e.url /\ ~e.openai /\ e.interactive}, UniverseNames,
             {[dirs |-> {}, files |-> {}]}, MaxRecords)

NextOperator ==
    \/ AnalyzeFolder
    \/ BeginFile
    \/ ClassifyI
    \/ NameFile
    \/ GroupFile
    \/ SubcategoryI
    \/ Respond

SpecOperator == InitOperator /\ [][NextOperator]_vars

\* ------------------------------------------------ functions taken alone

\* The variables of the tool calls.
server ==
    <<env, files, dirs, pc, call, ncalls, todo, analyzed_files, organization,
      gidx, cur, slots, link, result, results, pidx, fidx, raised, request>>

\* The names given to sanitize_folder_name: a head, a core, a filler of two
\* characters repeated, a tail.
SanitizeInputs ==
    {lead \o core \o Repeat("ab", n) \o tail :
        lead \in {"", " .", "a"},
        core \in {"", "<>:\"/\\|?*", "Code/Python", "x y"},
        n \in {0} \cup ((MaxRepeat - 2)..MaxRepeat),
        tail \in {"", ". ", "?"}}

\* sanitize_folder_name is called on the name.
SanitizeFolderName ==
    /\ arg.f = "sanitize_folder_name"
    /\ ~ret.done
    /\ ret' = [NoRet EXCEPT !.done = TRUE, !.text = sanitize_folder_name(arg.text)]
    /\ UNCHANGED <<server, arg>>

\* The (category, subcategory) pairs of the records given to
\* _organize_by_category; "" is the None of _detect_subcategory.
GroupingKeys ==
    { [category |-> "Code", subcategory |-> "Python"],
      [category |-> "Code_Python", subcategory |-> ""],
      [category |-> "Code", subcategory |-> ""],
      [category |-> "Notes", subcategory |-> ""] }

\* The lists of pairs: every list of up to MaxRecords pairs, and one pair
\* repeated up to MaxPlanFiles times.
GroupingInputs ==
    UNION {[1..n -> GroupingKeys] : n \in 1..MaxRecords}
       \cup {[i \in 1..n |-> k] : n \in (MaxRecords + 1)..MaxPlanFiles, k \in GroupingKeys}

\* The record of the i-th file of a list of pairs.
RecordOf(keys, i) ==
    FileMetadata("f" \o Str(i) \o ".py", "", JStr(keys[i].category), ConfUnit,
                 "n" \o Str(i) \o ".py")

\* _organize_by_category, its loop folded: the plans of the first n records
\* before they are sorted.
RECURSIVE Grouped(_, _)
Grouped(keys, n) ==
    IF n = 0 THEN <<>>
    ELSE GroupInto(Grouped(keys, n - 1), RecordOf(keys, n),
                   IF keys[n].subcategory = "" THEN JNull ELSE JStr(keys[n].subcategory))

\* _organize_by_category and _build_structure are called on the records.
OrganizeByCategory ==
    /\ arg.f = "_organize_by_category"
    /\ ~ret.done
    /\ LET plans == SortedPlans(Grouped(arg.keys, Len(arg.keys)))
       IN ret' = [NoRet EXCEPT !.done = TRUE, !.plans = plans,
                               !.structure = BuildStructure(plans)]
    /\ UNCHANGED <<server, arg>>

\* The contents of oracle B's first choice: those of ResponsesB, and texts
\* with braces around a well-formed object.
ClassifyTexts ==
    {r.content : r \in ResponsesB} \cup
    { "{\"category\":\"Data\",\"confidence\":0.9} and {more}",
      "{\"category\":\"Data\",\"confidence\":0.9} }",
      "{x} {\"category\":\"Data\",\"confidence\":0.9}",
      "} {\"category\":\"Data\",\"confidence\":0.9}",
      "{\"category\":\"Data\",\"confidence\":0.9" }

\* _openai_classify gets the text as the content of the first choice.
OpenAIClassifyText ==
    /\ arg.f = "_openai_classify"
    /\ ~ret.done
    /\ ret' = [NoRet EXCEPT !.done = TRUE,
                            !.link = OpenAIClassify([status |-> "ok", choices |-> 1,
                                                     content |-> arg.text])]
    /\ UNCHANGED <<server, arg>>

InitFunctions ==
    /\ Started({NoOracle}, {}, {[dirs |-> {}, files |-> {}]}, 0)
    /\ \/ \E text \in SanitizeInputs :
             arg = [NoArg EXCEPT !.f = "sanitize_folder_name", !.text = text]
       \/ \E keys \in GroupingInputs :
             arg = [NoArg EXCEPT !.f = "_organize_by_category", !.keys = keys]
       \/ \E text \in ClassifyTexts :
             arg = [NoArg EXCEPT !.f = "_openai_classify", !.text = text]

NextFunctions ==
    \/ SanitizeFolderName
    \/ OrganizeByCategory
    \/ OpenAIClassifyText

SpecFunctions == InitFunctions /\ [][NextFunctions]_vars

\* ------------------------------------------------------------ properties

\* analyze_folder has returned a result to its tool (and not raised).
Returned ==
    \/ pc \in {"analyzed", "organize"}
    \/ (pc = "idle" /\ ncalls > 0 /\ raised = "")

\* No variable of the environment is set.
NothingConfigured == ~env.url /\ ~env.openai /\ ~env.interactive

\* The places (plan, position) of the file lists of plans.
Places(plans) ==
    UNION {{<<p, k>> : k \in 1..Len(plans[p].files)} : p \in 1..Len(plans)}

RECURSIVE MemberCount(_)
MemberCount(plans) ==
    IF plans = <<>> THEN 0
    ELSE Len(Head(plans).files) + MemberCount(Tail(plans))

\* C1: whenever analyze_folder has returned, every analysed record is in
\* exactly one place of exactly one plan's file list, and the plans' member
\* counts add up to total_files, the number of analysed records.
C1_PlansPartitionRecords ==
    Returned =>
        LET plans == result.organized_folders
        IN /\ result.total_files = Len(analyzed_files)
           /\ MemberCount(plans) = result.total_files
           /\ \A i \in 1..Len(analyzed_files) :
                 Cardinality({pl \in Places(plans) :
                     plans[pl[1]].files[pl[2]] = analyzed_files[i]}) = 1

\* Two records were analysed and grouped into one plan of two.
C1_TwoInOnePlan ==
    /\ Returned
    /\ result.total_files = 2
    /\ Len(result.organized_folders) = 1
    /\ Len(result.organized_folders[1].files) = 2

\* C2: every record analysis produces has a confidence between 0.0 and 1.0
\* that is 0.0 exactly when its category is "Uncategorized".
C2_ConfidenceInRange ==
    \A i \in 1..Len(analyzed_files) :
        LET f == analyzed_files[i]
        IN /\ f.confidence_score \in 0..ConfUnit
           /\ f.confidence_score = 0 <=> f.suggested_category = JStr(Uncategorized)

\* settings.CATEGORY_KEYWORDS, in its order of enumeration.
CATEGORY_KEYWORDS ==
    << [category |-> "Documents",
        keywords |-> {"document", "doc", "pdf", "word", "text", "report", "essay",
                      "article", "paper", "memo", "letter", "contract", "agreement"}],
       [category |-> "Images",
        keywords |-> {"image", "photo", "picture", "img", "graphic", "design",
                      "icon", "screenshot"}],
       [category |-> "Videos",
        keywords |-> {"video", "movie", "film", "clip", "recording"}],
       [category |-> "Audio",
        keywords |-> {"audio", "music", "sound", "song", "podcast"}],
       [category |-> "Code",
        keywords |-> {"code", "script", "program", "source", "python", "java",
                      "javascript"}],
       [category |-> "Data",
        keywords |-> {"data", "dataset", "database", "csv", "sql", "excel", "sheet"}],
       [category |-> "Configuration",
        keywords |-> {"config", "settings", "setup", "configuration"}] >>

\* The keywords of table entry c that occur in the lowercased filename or
\* the lowercased preview.
KeywordMatches(c, filename, preview) ==
    LET texts == <<Lower(filename), Lower(preview)>>
    IN Cardinality({w \in CATEGORY_KEYWORDS[c].keywords :
                       Contains(texts[1], w) \/ Contains(texts[2], w)})

\* The keyword scoring the specification describes: the first table entry
\* with the highest nonzero count, at confidence min(matches / 3, 1.0).
KeywordScore(filename, preview) ==
    LET n == [c \in 1..Len(CATEGORY_KEYWORDS) |-> KeywordMatches(c, filename, preview)]
        best == CHOOSE c \in 1..Len(CATEGORY_KEYWORDS) :
                    /\ \A d \in 1..Len(CATEGORY_KEYWORDS) : n[d] <= n[c]
                    /\ \A d \in 1..(c - 1) : n[d] < n[c]
    IN IF n[best] = 0 THEN [category |-> Uncategorized, confidence |-> 0]
       ELSE [category |-> CATEGORY_KEYWORDS[best].category,
             confidence |-> Min((n[best] * ConfUnit) \div 3, ConfUnit)]

\* C3: with nothing configured every record carries the category and the
\* confidence of the keyword scoring, and the analysis of a folder holding
\* script.py and config.yaml returns a plan of category "Code" or
\* "Configuration".
C3_KeywordScoring ==
    NothingConfigured =>
        /\ \A i \in 1..Len(analyzed_files) :
              LET f == analyzed_files[i]
                  score == KeywordScore(f.original_name, f.content_preview)
              IN /\ f.suggested_category = JStr(score.category)
                 /\ f.confidence_score = score.confidence
        /\ (Returned /\ RootFiles = {"script.py", "config.yaml"}
               /\ Len(analyzed_files) = 2) =>
              \E p \in 1..Len(result.organized_folders) :
                  result.organized_folders[p].category
                      \in {JStr("Code"), JStr("Configuration")}

\* C4: with nothing configured, a record whose filename and preview match no
\* keyword of any category is "Uncategorized" at confidence 0.0.
C4_NoMatchUncategorized ==
    NothingConfigured =>
        \A i \in 1..Len(analyzed_files) :
            LET f == analyzed_files[i]
            IN (\A c \in 1..Len(CATEGORY_KEYWORDS) :
                    KeywordMatches(c, f.original_name, f.content_preview) = 0)
               => /\ f.suggested_category = JStr(Uncategorized)
                  /\ f.confidence_score = 0

\* a.PNG, which matches no keyword, was analysed with nothing configured.
C4_NoMatchAnalysed ==
    /\ NothingConfigured
    /\ \E i \in 1..Len(analyzed_files) :
          /\ analyzed_files[i].original_name = "a.PNG"
          /\ \A c \in 1..Len(CATEGORY_KEYWORDS) :
                KeywordMatches(c, "a.PNG", analyzed_files[i].content_preview) = 0

\* C5: with nothing configured, get_structure on a folder holding report.txt
\* and script.py answers with exactly two folders, "Documents" and
\* "Code/Python", of one file each, script.py being of category "Code".
C5_ExtensionSubcategory ==
    (/\ NothingConfigured
     /\ pc = "idle"
     /\ call.tool = "get_structure"
     /\ raised = ""
     /\ RootFiles = {"report.txt", "script.py"}
     /\ Len(analyzed_files) = 2) =>
        LET structure == result.suggested_structure
        IN /\ Len(structure) = 2
           /\ {structure[k].folder : k \in 1..Len(structure)}
                 = {"Documents", "Code/Python"}
           /\ \A k \in 1..Len(structure) : structure[k].file_count = 1
           /\ \A i \in 1..Len(analyzed_files) :
                 analyzed_files[i].original_name = "script.py"
                    => analyzed_files[i].suggested_category = JStr("Code")

\* The exchanges of the running classification: link, hit, category.
Exchanges == cur.calls

\* C6: the links of a classification are called in the order A, B, prompt;
\* a link is called only when it is configured, every configured link before
\* it was called, and every link called before it returned no category; once
\* the classification has returned, its category is that of the one link
\* that returned one, or "Uncategorized" at 0.0 when every configured link
\* was called and none did.
C6_ChainOrder ==
    /\ \A i \in 1..Len(Exchanges) :
          /\ Configured(env, Exchanges[i].link)
          /\ \A j \in 1..(i - 1) :
                /\ LinkIndex(Exchanges[j].link) < LinkIndex(Exchanges[i].link)
                /\ ~Truthy(Exchanges[j].category)
          /\ \A l \in {"A", "B"} :
                (LinkIndex(l) < LinkIndex(Exchanges[i].link) /\ Configured(env, l))
                   => \E j \in 1..(i - 1) : Exchanges[j].link = l
    /\ pc = "classified" =>
          IF \E i \in 1..Len(Exchanges) : Truthy(Exchanges[i].category)
          THEN cur.category = Exchanges[Len(Exchanges)].category
          ELSE /\ cur.category = JStr(Uncategorized)
               /\ cur.confidence = 0
               /\ \A l \in {"A", "B", "I"} :
                     Configured(env, l)
                        => \E j \in 1..Len(Exchanges) : Exchanges[j].link = l

\* Oracle A and oracle B missed and the operator's answer won.
C6_PromptAfterTwoMisses ==
    /\ pc = "classified"
    /\ Len(Exchanges) = 3
    /\ Exchanges[3].link = "I"
    /\ Truthy(Exchanges[3].category)
    /\ cur.category = Exchanges[3].category

\* C7: once the folder's files are listed, no answer of a link makes the
\* analysis fail: the call does not end with an exception, and a
\* classification in which every link missed returns "Uncategorized".
C7_OracleNeverFailsAnalysis ==
    /\ (pc = "idle" /\ ncalls > 0 /\ gidx > 0) => raised = ""
    /\ (pc = "classified" /\ \A i \in 1..Len(Exchanges) : ~Exchanges[i].hit)
          => cur.category = JStr(Uncategorized)

\* organize_files runs, or has run, with both flags set.
MovingCall ==
    call.tool = "organize_files" /\ call.create_folders /\ call.move_files

\* C8: no step of organize_files called with move_files = true and
\* create_folders = false changes a file or a folder, and its moved_files
\* and created_folders stay empty.
C8_MoveWithoutCreateIsNoOp ==
    [][(call'.tool = "organize_files" /\ call'.move_files /\ ~call'.create_folders)
          => /\ files' = files
             /\ dirs' = dirs
             /\ results'.moved_files = <<>>
             /\ results'.created_folders = <<>>]_vars

\* Such a call has returned, for plans whose folder exists already.
C8_MoveWithoutCreateReturned ==
    /\ pc = "idle"
    /\ call.tool = "organize_files"
    /\ call.move_files
    /\ ~call.create_folders
    /\ result.organized_folders # <<>>
    /\ \A p \in 1..Len(result.organized_folders) :
          result.organized_folders[p].suggested_folder_name \in dirs

\* new_name, or new_name with _k before its extension.
Numbered(new_name, k) ==
    IF k = 0 THEN new_name
    ELSE PathStem(new_name) \o "_" \o Str(k) \o PathSuffix(new_name)

\* organize_files recorded the move of record f.
WasMoved(f) ==
    \E k \in 1..Len(results.moved_files) : results.moved_files[k].from = f.file_path

\* The path holds the file that record f described (a file keeps its
\* original name as its identity).
Holds(path, f) ==
    Resolve(path) \in DOMAIN files /\ files[Resolve(path)] = f.original_name

\* The path was taken when the file at place <<p, i>> of the plans was
\* moved: by a folder, by a file that was there before the call, or by a
\* file of an earlier place.
TakenBefore(path, p, i) ==
    \/ Resolve(path) \in dirs
    \/ /\ Resolve(path) \in DOMAIN files
       /\ \/ files[Resolve(path)] = OldId
          \/ \E pl \in Places(result.organized_folders) :
                /\ pl[1] < p \/ (pl[1] = p /\ pl[2] < i)
                /\ Holds(path, result.organized_folders[pl[1]].files[pl[2]])

\* The file at place <<p, i>> is at its plan's folder joined with its
\* suggested name or, every smaller choice being taken, with the next
\* numbered one.
AtSmallestFree(p, i) ==
    LET plan == result.organized_folders[p]
        f == plan.files[i]
    IN \E k \in 0..Cardinality(DOMAIN files) :
          /\ Holds(Join(plan.suggested_folder_name, Numbered(f.suggested_name, k)), f)
          /\ \A m \in 0..(k - 1) :
                TakenBefore(Join(plan.suggested_folder_name,
                                 Numbered(f.suggested_name, m)), p, i)

\* Two places of one plan whose records have the same suggested name, both
\* moved by the call.
Colliding(p, i, j) ==
    LET plan == result.organized_folders[p]
    IN /\ i < j
       /\ plan.files[i].suggested_name = plan.files[j].suggested_name
       /\ WasMoved(plan.files[i])
       /\ WasMoved(plan.files[j])

FirstSeen(plan) ==
    CHOOSE k \in 1..Len(analyzed_files) :
        /\ analyzed_files[k] = plan.files[1]
        /\ \A i \in 1..Len(plan.files) :
              \E m \in k..Len(analyzed_files) : analyzed_files[m] = plan.files[i]

\* C10: the records are analysed in the order of their names, and in the
\* returned list no plan has more members than a plan before it, plans of
\* equal size standing in the order their first records were analysed.
C10_PlansSortedStable ==
    /\ \A a, b \in 1..Len(analyzed_files) :
          a < b => StrLess(analyzed_files[a].original_name,
                           analyzed_files[b].original_name)
    /\ Returned =>
          LET plans == result.organized_folders
          IN \A i, j \in 1..Len(plans) :
                i < j =>
                   /\ Len(plans[i].files) >= Len(plans[j].files)
                   /\ Len(plans[i].files) = Len(plans[j].files)
                         => FirstSeen(plans[i]) < FirstSeen(plans[j])

\* The sort moved a larger plan before a smaller one seen earlier.
C10_LargerPlanMovedUp ==
    /\ Returned
    /\ \E i, j \in 1..Len(result.organized_folders) :
          /\ i < j
          /\ Len(result.organized_folders[i].files)
                > Len(result.organized_folders[j].files)
          /\ FirstSeen(result.organized_folders[i])
                > FirstSeen(result.organized_folders[j])

\* C11: what sanitize_folder_name returns for a name has from 1 to 200
\* characters, none of them one of < > : " / \ | ? *; it is "folder" when
\* the name holds nothing but dots and spaces, and otherwise a stretch of
\* the name with each of those characters replaced by "_".
C11_SanitizedName ==
    (arg.f = "sanitize_folder_name" /\ ret.done) =>
        LET name == arg.text
            out == ret.text
            Bad(c) == Find("<>:\"/\\|?*", c) > 0
        IN /\ Len(out) \in 1..200
           /\ \A i \in 1..Len(out) : ~Bad(Char(out, i))
           /\ IF \A i \in 1..Len(name) : Char(name, i) \in {".", " "}
              THEN out = "folder"
              ELSE \E k \in 0..(Len(name) - Len(out)) :
                      \A i \in 1..Len(out) :
                          Char(out, i) = IF Bad(Char(name, k + i)) THEN "_"
                                         ELSE Char(name, k + i)

\* A name of more than 200 characters, some of them replaced, was cut to 200.
C11_LongNameCut ==
    /\ arg.f = "sanitize_folder_name"
    /\ ret.done
    /\ Len(arg.text) > 200
    /\ Len(ret.text) = 200
    /\ Find(arg.text, "?") > 0
    /\ Find(ret.text, "_") > 0

\* C12: a tool called on a path that does not exist or is no directory
\* ends with InvalidPathError itself, having analysed no file, built no
\* plan and returned no result.
C12_InvalidPathRaises ==
    request.path \in {"missing", "not_a_dir"} =>
        /\ pc = "idle"
        /\ raised = "InvalidPathError"
        /\ analyzed_files = <<>>
        /\ organization = <<>>
        /\ result = EmptyResult
        /\ results = EmptyResults

\* A call on a path that is a regular file has ended.
C12_CalledOnFile ==
    /\ request.path = "not_a_dir"
    /\ pc = "idle"
    /\ ncalls = 1

\* C15: a call whose listing of the folder fails ends with FileAccessError;
\* a call that returns has skipped the files whose analysis raised, the
\* records being of listed files in name order and total_files their count.
C15_ListingFailsSkipsFiles ==
    /\ request.listing = "oserror" => (pc = "idle" /\ raised = "FileAccessError")
    /\ Returned =>
          /\ result.total_files = Len(analyzed_files)
          /\ \A i \in 1..Len(analyzed_files) :
                analyzed_files[i].original_name \in UniverseNames

\* An element of a sequence.
Among(x, seq) == \E k \in 1..Len(seq) : seq[k] = x

\* How many elements of a sequence equal x.
Occurrences(x, seq) == Cardinality({k \in 1..Len(seq) : seq[k] = x})

\* The record is somewhere below the folder.
HeldBelow(folder, f) ==
    \E path \in DOMAIN files :
        Prefix(path, Len(folder) + 1) = folder \o "/" /\ Holds(path, f)

\* The record's file is at a path that is not the one it was analysed at.
HeldAway(f) ==
    \E path \in DOMAIN files \ {f.file_path} : files[path] = f.original_name

\* C13: organize_files called with both flags returns whatever moves failed:
\* every plan was attempted (its folder is recorded as created or as failed),
\* every file of a plan whose folder was created has its entry in moved_files
\* or its one error and never both, a file whose move failed is where it was,
\* and a moved file stays where its move put it, away from the path it had,
\* whatever failed after it.
C13_MoveFailureIsolated ==
    (pc = "idle" /\ MovingCall) =>
        /\ raised = ""
        /\ \A p \in 1..Len(result.organized_folders) :
              LET plan == result.organized_folders[p]
                  folder == plan.suggested_folder_name
                  made == Among(Join("", folder), results.created_folders)
              IN /\ made # Among("Failed to create " \o folder, results.errors)
                 /\ \A i \in 1..Len(plan.files) :
                       LET f == plan.files[i]
                           failed == "Failed to move " \o f.original_name
                       IN /\ made => (WasMoved(f) # Among(failed, results.errors))
                          /\ Occurrences(failed, results.errors) <= 1
                          /\ Among(failed, results.errors) => Holds(f.file_path, f)
                          /\ WasMoved(f) => (HeldAway(f) /\ ~Holds(f.file_path, f))

\* A call returned in which the move of a file failed and the file after it
\* in the plan was moved.
C13_MovedAfterFailure ==
    /\ pc = "idle"
    /\ MovingCall
    /\ \E p \in 1..Len(result.organized_folders) :
          LET plan == result.organized_folders[p]
          IN \E i, j \in 1..Len(plan.files) :
                /\ i < j
                /\ Among("Failed to move " \o plan.files[i].original_name, results.errors)
                /\ WasMoved(plan.files[j])
                /\ HeldBelow(plan.suggested_folder_name, plan.files[j])

\* C14: with create_folders set, the step that handles a plan's folder
\* records a folder that is already there as created, without an error; when
\* the folder cannot be made it appends the one error of that folder, records
\* and creates nothing and goes to the next plan (or returns after the last);
\* it never touches a file, and no file of a plan whose folder failed is
\* moved.
C14_FolderCreation ==
    /\ [][(pc = "organize" /\ fidx = 0 /\ call.create_folders) =>
            LET folder_name == result.organized_folders[pidx].suggested_folder_name
                folder_path == Join("", folder_name)
                recorded == /\ results'.created_folders =
                                  Append(results.created_folders, folder_path)
                            /\ results'.errors = results.errors
                            /\ dirs' = dirs \cup {folder_path}
                failed == /\ results'.errors =
                                Append(results.errors, "Failed to create " \o folder_name)
                          /\ results'.created_folders = results.created_folders
                          /\ dirs' = dirs
                          /\ IF pidx < Len(result.organized_folders)
                             THEN pc' = "organize" /\ pidx' = pidx + 1 /\ fidx' = 0
                             ELSE pc' = "idle" /\ raised' = ""
            IN /\ files' = files
               /\ results'.moved_files = results.moved_files
               /\ IF folder_path \in dirs THEN recorded ELSE (recorded \/ failed)]_vars
    /\ [](call.tool = "organize_files" =>
            \A p \in 1..Len(result.organized_folders) :
                LET plan == result.organized_folders[p]
                IN Among("Failed to create " \o plan.suggested_folder_name, results.errors) =>
                      \A i \in 1..Len(plan.files) :
                          /\ ~WasMoved(plan.files[i])
                          /\ Holds(plan.files[i].file_path, plan.files[i]))

\* A call returned in which the first plan's folder could not be made and
\* the second plan's folder, there before the call, is recorded as created.
C14_FailedThenExisting ==
    /\ pc = "idle"
    /\ call.tool = "organize_files"
    /\ call.create_folders
    /\ Len(result.organized_folders) = 2
    /\ results.errors = <<"Failed to create "
                            \o result.organized_folders[1].suggested_folder_name>>
    /\ result.organized_folders[2].suggested_folder_name = "Uncategorized"
    /\ results.created_folders = <<"Uncategorized">>
    /\ "Uncategorized/Uncategorized_a.PNG" \in DOMAIN files

\* C18: no step loses or overwrites a file: either the tree of files is
\* left as it is, or one file leaves its path for a path where neither a
\* file nor a folder was, with its content, and every other file keeps its
\* path and content; so each analysed file is at exactly one path throughout.
C18_NoDataDestroyed ==
    /\ [][\/ files' = files
          \/ \E src \in DOMAIN files :
                \E dst \in DOMAIN files' \ (DOMAIN files \cup dirs) :
                   /\ DOMAIN files' = (DOMAIN files \ {src}) \cup {dst}
                   /\ files'[dst] = files[src]
                   /\ \A p \in DOMAIN files \ {src} : files'[p] = files[p]]_vars
    /\ [](\A i \in 1..Len(analyzed_files) :
             Cardinality({p \in DOMAIN files :
                             files[p] = analyzed_files[i].original_name}) = 1)

\* A call returned that moved a file into a folder which held a file of the
\* suggested name before: the old file is where it was and the moved one is
\* beside it under the name numbered 1.
C18_OldFileKept ==
    /\ pc = "idle"
    /\ MovingCall
    /\ "Uncategorized/Uncategorized_a.PNG" \in DOMAIN files
    /\ files["Uncategorized/Uncategorized_a.PNG"] = OldId
    /\ "Uncategorized/Uncategorized_a_1.PNG" \in DOMAIN files
    /\ files["Uncategorized/Uncategorized_a_1.PNG"] = "Uncategorized_a.PNG"
    /\ "Uncategorized_a.PNG" \notin DOMAIN files

\* C19: when organize_files has returned, the file of every entry of
\* moved_files is at the entry's "to" path, and no two entries have the same
\* "to" path.
C19_MovedFilesTruthful ==
    (pc = "idle" /\ call.tool = "organize_files") =>
        /\ \A k \in 1..Len(results.moved_files) :
              \E pl \in Places(result.organized_folders) :
                 LET f == result.organized_folders[pl[1]].files[pl[2]]
                 IN /\ f.file_path = results.moved_files[k].from
                    /\ Holds(results.moved_files[k].to, f)
        /\ \A k, l \in 1..Len(results.moved_files) :
              k # l => results.moved_files[k].to # results.moved_files[l].to

\* C20: when organize_files has returned, every file it moved is a direct
\* child of its plan's folder.
C20_MovedIntoPlanFolder ==
    (pc = "idle" /\ call.tool = "organize_files") =>
        \A p \in 1..Len(result.organized_folders) :
            LET plan == result.organized_folders[p]
            IN \A i \in 1..Len(plan.files) :
                  WasMoved(plan.files[i]) =>
                     \E path \in DOMAIN files :
                        /\ files[path] = plan.files[i].original_name
                        /\ Parent(path) = Join("", plan.suggested_folder_name)

RECURSIVE SumCounts(_)
SumCounts(structure) ==
    IF structure = <<>> THEN 0
    ELSE Head(structure).file_count + SumCounts(Tail(structure))

\* C16: the structure built from the plans of a list of records has, for
\* every plan, an entry of the plan's folder name with the plan's category,
\* the number of its files and the first 5 of their suggested names in the
\* plan's order, and the entries' file counts add up to the number of
\* records.
C16_StructureCoversPlans ==
    (arg.f = "_organize_by_category" /\ ret.done) =>
        /\ \A p \in 1..Len(ret.plans) :
              LET plan == ret.plans[p]
              IN \E e \in 1..Len(ret.structure) :
                    /\ ret.structure[e].folder = plan.suggested_folder_name
                    /\ ret.structure[e].category = plan.category
                    /\ ret.structure[e].file_count = Len(plan.files)
                    /\ ret.structure[e].files =
                          [i \in 1..Min(5, Len(plan.files)) |-> plan.files[i].suggested_name]
        /\ SumCounts(ret.structure) = Len(arg.keys)

\* The first balanced brace-delimited substring of a text: from the first
\* "{" to the "}" that closes it; "" when there is none.
RECURSIVE ClosingBrace(_, _, _)
ClosingBrace(text, i, depth) ==
    IF i > Len(text) THEN 0
    ELSE LET d == depth + (IF Char(text, i) = "{" THEN 1
                           ELSE IF Char(text, i) = "}" THEN -1 ELSE 0)
         IN IF d = 0 THEN i ELSE ClosingBrace(text, i + 1, d)

FirstBalanced(text) ==
    LET start == Find(text, "{")
        end == IF start = 0 THEN 0 ELSE ClosingBrace(text, start, 0)
    IN IF end = 0 THEN "" ELSE SubSeq(text, start, end)

\* C17: what oracle B's link returns for a text is what the first balanced
\* brace-delimited substring of the text gives when it is parsed, and a miss
\* when there is no such substring or it is no well-formed object.
C17_FirstBalancedObjectParsed ==
    (arg.f = "_openai_classify" /\ ret.done) =>
        LET first == FirstBalanced(arg.text)
        IN ret.link = IF first \in JsonTexts THEN ParseFields(JsonLoads(first)) ELSE Miss

\* An organize_files call with both flags has returned without an error.
CleanRun ==
    /\ pc = "idle"
    /\ MovingCall
    /\ raised = ""
    /\ results.errors = <<>>

\* C21: when organize_files called with both flags has returned without an
\* error, no regular file is left in the folder itself; an analysis of the
\* folder started then returns at once with total_files = 0 and no plan; and
\* organize_files given a result of no file creates no folder, moves no
\* file and leaves files and folders as they are.
C21_RerunChangesNothing ==
    /\ [](CleanRun => RootFiles = {})
    /\ [][(CleanRun /\ pc' # "idle") =>
             /\ pc' = "analyzed"
             /\ result'.total_files = 0
             /\ result'.organized_folders = <<>>]_vars
    /\ [][(pc = "analyzed" /\ result.total_files = 0) =>
             /\ files' = files
             /\ dirs' = dirs
             /\ results'.created_folders = <<>>
             /\ results'.moved_files = <<>>]_vars

====
